---- MODULE Spec2Model ----
(***************************************************************************)
(* Model of the Waybar media-player module                                 *)
(* dotfiles/.config/waybar/scripts/mediaplayer.py: the player selector     *)
(* with its persisted "last player" state file and the locking protocol    *)
(* around it, the metadata formatter, and the command line.                *)
(*                                                                         *)
(* Python str values are TLA+ strings (TLC evaluates Len, \o, SubSeq, Head *)
(* and Tail on them); a character is a string of length 1.  The strings of *)
(* the model are the strings over Alphabet below.                          *)
(***************************************************************************)
EXTENDS Integers, Sequences, FiniteSets, TLC

\* ------------------------------------------------------------------------
\* Bounds of the model
\* ------------------------------------------------------------------------
\* Longest list of running players the external tool reports.
MaxPlayers == 2

\* Invocations of the script that can run at the same time.
MaxInvocations == 2

\* ------------------------------------------------------------------------
\* Characters
\* ------------------------------------------------------------------------
\* The characters str.strip() removes: those of str.isspace() that a TLA+
\* string can hold (U+0009-U+000D, U+001C-U+001F, U+0020, U+0085, U+00A0,
\* U+1680; the control characters are written as themselves).
Whitespace ==
    {" ", "\t", "\n", "\r", "\f", "", "", "", "", "",
     "", " ", " "}

\* The line boundaries of str.splitlines() (U+000A-U+000D, U+001C-U+001E,
\* U+0085); "\r\n" is one boundary.
LineBreaks ==
    {"\n", "\r", "\f", "", "", "", "", ""}

\* The letters of Latin-1 that str.lower() changes, and what it makes of
\* them.
UpperLetters ==
    <<"A","B","C","D","E","F","G","H","I","J","K","L","M",
      "N","O","P","Q","R","S","T","U","V","W","X","Y","Z",
      "À","Á","Â","Ã","Ä","Å","Æ","Ç","È","É","Ê","Ë","Ì","Í","Î","Ï",
      "Ð","Ñ","Ò","Ó","Ô","Õ","Ö","Ø","Ù","Ú","Û","Ü","Ý","Þ">>
LowerLetters ==
    <<"a","b","c","d","e","f","g","h","i","j","k","l","m",
      "n","o","p","q","r","s","t","u","v","w","x","y","z",
      "à","á","â","ã","ä","å","æ","ç","è","é","ê","ë","ì","í","î","ï",
      "ð","ñ","ò","ó","ô","õ","ö","ø","ù","ú","û","ü","ý","þ">>

\* The decimal digits (\d of the re module).
Digits == {"0","1","2","3","4","5","6","7","8","9"}

\* The other characters of Latin-1 for which str.isalnum() is True.
OtherAlnum == {"ª","²","³","µ","¹","º","¼","½","¾","ß","ÿ"}

\* The characters of Latin-1 for which str.isalnum() is True.
AlnumChars ==
    { UpperLetters[k] : k \in DOMAIN UpperLetters }
    \cup { LowerLetters[k] : k \in DOMAIN LowerLetters }
    \cup Digits \cup OtherAlnum

\* The printable characters of Latin-1 that are neither alphanumeric nor
\* white space (all but U+0060, which a TLA+ string cannot hold).
Punctuation ==
    {"!","\"","#","$","%","&","'","(",")","*","+",",","-",".","/",":",";",
     "<","=",">","?","@","[","\\","]","^","_","{","|","}","~",
     "¡","¢","£","¤","¥","¦","§","¨","©","«","¬","­","®","¯","°","±",
     "´","¶","·","¸","»","¿","×","÷"}

\* The characters of the model's strings: printable Latin-1 and white space.
Alphabet == AlnumChars \cup Punctuation \cup Whitespace

\* A character of Alphabet as it is.  What str.isalnum(), str.lower(), \d
\* and json.dump make of a character comes from Unicode's tables, which the
\* model holds for Alphabet only: for another character there is no value.
Known(c) == CHOOSE k \in ({c} \cap Alphabet) : TRUE

\* ------------------------------------------------------------------------
\* Python values
\* ------------------------------------------------------------------------
\* None, and the empty list argparse makes of the explicit option argument
\* "--": each begins with the control character U+0001, which no string
\* over Alphabet does.
None == "<None>"
EmptyList == "[]"

\* bool(s) of a value that is None, [] or a str.
Truthy(s) == s # None /\ s # EmptyList /\ s # ""

\* x or None
OrNone(s) == IF Truthy(s) THEN s ELSE None

CharAt(s, i) == SubSeq(s, i, i)

RECURSIVE LStrip(_)
LStrip(s) ==
    IF s # "" /\ Head(s) \in Whitespace THEN LStrip(Tail(s)) ELSE s

RECURSIVE RStrip(_)
RStrip(s) ==
    IF s # "" /\ CharAt(s, Len(s)) \in Whitespace
    THEN RStrip(SubSeq(s, 1, Len(s) - 1))
    ELSE s

\* str.strip()
strip(s) == RStrip(LStrip(s))

\* str.find(sub, i) + 1 with 1-based positions: 0 when sub does not occur.
RECURSIVE Find(_, _, _)
Find(s, sub, i) ==
    IF i + Len(sub) - 1 > Len(s) THEN 0
    ELSE IF SubSeq(s, i, i + Len(sub) - 1) = sub THEN i
    ELSE Find(s, sub, i + 1)

\* sub in s
Contains(s, sub) == Find(s, sub, 1) # 0

\* str.split(sep)
RECURSIVE split(_, _)
split(s, sep) ==
    LET i == Find(s, sep, 1) IN
    IF i = 0 THEN <<s>>
    ELSE <<SubSeq(s, 1, i - 1)>> \o split(SubSeq(s, i + Len(sep), Len(s)), sep)

\* The lines of s after the line cur that is being read.
RECURSIVE LinesFrom(_, _)
LinesFrom(s, cur) ==
    IF s = "" THEN (IF cur = "" THEN <<>> ELSE <<cur>>)
    ELSE IF Len(s) >= 2 /\ SubSeq(s, 1, 2) = "\r\n"
    THEN <<cur>> \o LinesFrom(SubSeq(s, 3, Len(s)), "")
    ELSE IF Head(s) \in LineBreaks THEN <<cur>> \o LinesFrom(Tail(s), "")
    ELSE LinesFrom(Tail(s), cur \o Head(s))

\* str.splitlines(): the pieces between line boundaries, no empty last piece.
splitlines(s) == LinesFrom(s, "")

LowerChar(c) ==
    IF \E k \in DOMAIN UpperLetters : UpperLetters[k] = c
    THEN LowerLetters[CHOOSE k \in DOMAIN UpperLetters : UpperLetters[k] = c]
    ELSE Known(c)

\* str.lower()
RECURSIVE lower(_)
lower(s) == IF s = "" THEN "" ELSE LowerChar(Head(s)) \o lower(Tail(s))

\* ch.isalnum()
IsAlnum(c) == Known(c) \in AlnumChars

Range(seq) == { seq[i] : i \in DOMAIN seq }

\* ------------------------------------------------------------------------
\* Helpers of the script
\* ------------------------------------------------------------------------
\* normalize_player_name: the part before the first '.', or the whole name.
normalize_player_name(name) ==
    IF Contains(name, ".") THEN split(name, ".")[1] ELSE name

\* slugify_class
RECURSIVE SlugChars(_)
SlugChars(s) ==
    IF s = "" THEN ""
    ELSE (IF IsAlnum(Head(s)) \/ Head(s) = "." THEN Head(s) ELSE "_")
         \o SlugChars(Tail(s))

RECURSIVE LStripSet(_, _)
LStripSet(s, cs) ==
    IF s # "" /\ Head(s) \in cs THEN LStripSet(Tail(s), cs) ELSE s

RECURSIVE RStripSet(_, _)
RStripSet(s, cs) ==
    IF s # "" /\ CharAt(s, Len(s)) \in cs
    THEN RStripSet(SubSeq(s, 1, Len(s) - 1), cs)
    ELSE s

slugify_class(s) ==
    LET low   == lower(IF Truthy(s) THEN s ELSE "")
        token == RStripSet(LStripSet(SlugChars(low), {"_", "."}), {"_", "."})
    IN  IF token # "" THEN token ELSE "player"

\* ------------------------------------------------------------------------
\* The external tool
\* ------------------------------------------------------------------------
\* What one launch of playerctl does: exc is the exception
\* subprocess.check_output(...) or out.decode("utf-8") raises ("none": the
\* process exited 0 and its output decoded), out the decoded standard output.
Proc(exc, out) == [exc |-> exc, out |-> out]

\* A call's result: the value it returns, or the exception it raises.
Returned(v) == [exc |-> "none", value |-> v]
Raised(e) == [exc |-> e, value |-> None]

\* The exceptions run_playerctl's except clause names.
SwallowedExceptions == {"CalledProcessError", "FileNotFoundError"}

\* run_playerctl
run_playerctl(proc) ==
    IF proc.exc = "none" THEN Returned(strip(proc.out))
    ELSE IF proc.exc \in SwallowedExceptions THEN Returned("")
    ELSE Raised(proc.exc)

\* ------------------------------------------------------------------------
\* The state file
\* ------------------------------------------------------------------------
\* A JSON value found under "player": a string s, a number n, a boolean
\* (n = 1: true), null, or a one-element array [s].
JV(t, s, n) == [t |-> t, s |-> s, n |-> n]
StrV(s) == JV("str", s, 0)
NoneV == JV("null", "", 0)

\* bool(v)
TruthyV(v) ==
    CASE v.t = "str" -> v.s # ""
      [] v.t \in {"int", "bool"} -> v.n # 0
      [] v.t = "list" -> TRUE
      [] OTHER -> FALSE

\* The file at STATE_FILE as open and json.load find it: missing, unreadable
\* for this user, not JSON (empty or cut short), or a JSON document: an
\* object with or without a "player" member, or a document that is not an
\* object.
FileDoc(kind, top, has, val) ==
    [kind |-> kind, top |-> top, has |-> has, val |-> val]
MissingFile == FileDoc("missing", "", FALSE, NoneV)
UnreadableFile == FileDoc("unreadable", "", FALSE, NoneV)
InvalidFile == FileDoc("invalid", "", FALSE, NoneV)
NonObjectFile == FileDoc("json", "array", FALSE, NoneV)
EmptyObjectFile == FileDoc("json", "object", FALSE, NoneV)
PlayerFile(v) == FileDoc("json", "object", TRUE, v)

\* No open or json.load of this invocation has looked at the file.
NoData == FileDoc("unread", "", FALSE, NoneV)

\* load_last_player's result for what open and json.load found: every
\* exception (open, json.load, data.get on a document that is not an
\* object) is caught and gives None.
load_last_player(f) ==
    IF f.kind # "json" THEN NoneV
    ELSE IF f.top # "object" THEN NoneV
    ELSE IF ~f.has THEN NoneV
    ELSE IF TruthyV(f.val) THEN f.val ELSE NoneV

\* The characters json.dump does not write as themselves, and what it
\* writes for them (ensure_ascii).
JsonEscaped ==
    <<
      "\t", "\n", "", "\f", "\r", "", "", "", "", "\"", "\\", "",
      " ", "¡", "¢", "£", "¤", "¥", "¦", "§", "¨", "©", "ª", "«",
      "¬", "­", "®", "¯", "°", "±", "²", "³", "´", "µ", "¶", "·",
      "¸", "¹", "º", "»", "¼", "½", "¾", "¿", "À", "Á", "Â", "Ã",
      "Ä", "Å", "Æ", "Ç", "È", "É", "Ê", "Ë", "Ì", "Í", "Î", "Ï",
      "Ð", "Ñ", "Ò", "Ó", "Ô", "Õ", "Ö", "×", "Ø", "Ù", "Ú", "Û",
      "Ü", "Ý", "Þ", "ß", "à", "á", "â", "ã", "ä", "å", "æ", "ç",
      "è", "é", "ê", "ë", "ì", "í", "î", "ï", "ð", "ñ", "ò", "ó",
      "ô", "õ", "ö", "÷", "ø", "ù", "ú", "û", "ü", "ý", "þ", "ÿ",
      " " >>
JsonEscapes ==
    <<
      "\\t", "\\n", "\\u000b", "\\f", "\\r", "\\u001c",
      "\\u001d", "\\u001e", "\\u001f", "\\\"", "\\\\", "\\u0085",
      "\\u00a0", "\\u00a1", "\\u00a2", "\\u00a3", "\\u00a4", "\\u00a5",
      "\\u00a6", "\\u00a7", "\\u00a8", "\\u00a9", "\\u00aa", "\\u00ab",
      "\\u00ac", "\\u00ad", "\\u00ae", "\\u00af", "\\u00b0", "\\u00b1",
      "\\u00b2", "\\u00b3", "\\u00b4", "\\u00b5", "\\u00b6", "\\u00b7",
      "\\u00b8", "\\u00b9", "\\u00ba", "\\u00bb", "\\u00bc", "\\u00bd",
      "\\u00be", "\\u00bf", "\\u00c0", "\\u00c1", "\\u00c2", "\\u00c3",
      "\\u00c4", "\\u00c5", "\\u00c6", "\\u00c7", "\\u00c8", "\\u00c9",
      "\\u00ca", "\\u00cb", "\\u00cc", "\\u00cd", "\\u00ce", "\\u00cf",
      "\\u00d0", "\\u00d1", "\\u00d2", "\\u00d3", "\\u00d4", "\\u00d5",
      "\\u00d6", "\\u00d7", "\\u00d8", "\\u00d9", "\\u00da", "\\u00db",
      "\\u00dc", "\\u00dd", "\\u00de", "\\u00df", "\\u00e0", "\\u00e1",
      "\\u00e2", "\\u00e3", "\\u00e4", "\\u00e5", "\\u00e6", "\\u00e7",
      "\\u00e8", "\\u00e9", "\\u00ea", "\\u00eb", "\\u00ec", "\\u00ed",
      "\\u00ee", "\\u00ef", "\\u00f0", "\\u00f1", "\\u00f2", "\\u00f3",
      "\\u00f4", "\\u00f5", "\\u00f6", "\\u00f7", "\\u00f8", "\\u00f9",
      "\\u00fa", "\\u00fb", "\\u00fc", "\\u00fd", "\\u00fe", "\\u00ff",
      "\\u1680" >>

JsonEscapeChar(c) ==
    IF \E k \in DOMAIN JsonEscaped : JsonEscaped[k] = c
    THEN JsonEscapes[CHOOSE k \in DOMAIN JsonEscaped : JsonEscaped[k] = c]
    ELSE Known(c)

RECURSIVE JsonEscape(_)
JsonEscape(s) ==
    IF s = "" THEN "" ELSE JsonEscapeChar(Head(s)) \o JsonEscape(Tail(s))

\* json.dumps({"player": name})
JsonDump(name) == "{\"player\": \"" \o JsonEscape(name) \o "\"}"

\* write() of data at offset 0 of a file holding text.
Overlay(text, data) == data \o SubSeq(text, Len(data) + 1, Len(text))

\* Line 46, open(STATE_FILE, "w"): the file is created or emptied; its
\* permissions stay, so a file this user cannot read remains unreadable.
OpenForWriting(f) == IF f.kind = "unreadable" THEN f ELSE InvalidFile

\* The file after close() has written the buffer data = json.dumps({"player":
\* name}) and the file's text is text: the new document if nothing follows
\* it, else not JSON (a document followed by the end of a longer one).
Written(f, text, data, name) ==
    IF f.kind = "unreadable" THEN f
    ELSE IF text = data THEN PlayerFile(StrV(name))
    ELSE InvalidFile

\* normalize_player_name applied to what load_last_player returned:
\* '.' in name raises TypeError for a number or boolean; for a list it is
\* membership, and name.split raises AttributeError.
NormalizeValue(v) ==
    CASE v.t = "str" -> [exc |-> "none", t |-> "str", s |-> normalize_player_name(v.s)]
      [] v.t \in {"int", "bool"} -> [exc |-> "TypeError", t |-> v.t, s |-> ""]
      [] v.t = "list" ->
           IF v.s = "." THEN [exc |-> "AttributeError", t |-> "list", s |-> ""]
           ELSE [exc |-> "none", t |-> "list", s |-> v.s]
      [] OTHER -> [exc |-> "none", t |-> v.t, s |-> ""]

\* ------------------------------------------------------------------------
\* choose_player
\* ------------------------------------------------------------------------
\* FilterNames with the exclusion compared to the listed name as it is, not
\* to its normalized form.
FilterNames_RawExclusion(selected, excluded, names_str) ==
    LET excluded_set == { p \in Range(excluded) : p # "" }
        raw == splitlines(names_str)
        NonBlank(n) == strip(n) # ""
        kept == SelectSeq(raw, NonBlank)
        all == [i \in 1..Len(kept) |-> strip(kept[i])]
        Forced(n) == normalize_player_name(n) = normalize_player_name(selected)
        NotExcluded(n) == n \notin excluded_set
    IN  IF Truthy(selected) THEN SelectSeq(all, Forced)
        ELSE SelectSeq(all, NotExcluded)

\* Lines 81-101: the listed names, stripped, after the user's filters.
FilterNames(selected, excluded, names_str) ==
    LET excluded_set == { p \in Range(excluded) : p # "" }
        raw == splitlines(names_str)
        NonBlank(n) == strip(n) # ""
        kept == SelectSeq(raw, NonBlank)
        all == [i \in 1..Len(kept) |-> strip(kept[i])]
        Forced(n) == normalize_player_name(n) = normalize_player_name(selected)
        NotExcluded(n) == normalize_player_name(n) \notin excluded_set
    IN  IF Truthy(selected) THEN SelectSeq(all, Forced)
        ELSE SelectSeq(all, NotExcluded)

\* ValidLastPlayer taking the last candidate of the stored player's name
\* instead of the first.
ValidLastPlayer_LastMatch(names, norm) ==
    LET SameBase(n) == norm.t = "str" /\ normalize_player_name(n) = norm.s
        matching == SelectSeq(names, SameBase)
    IN  IF matching # <<>> THEN matching[Len(matching)] ELSE None

\* ValidLastPlayer falling back to the last candidate when the stored player
\* matches none, instead of discarding it.
ValidLastPlayer_FallbackLast(names, norm) ==
    LET SameBase(n) == norm.t = "str" /\ normalize_player_name(n) = norm.s
        matching == SelectSeq(names, SameBase)
    IN  IF matching # <<>> THEN matching[1] ELSE names[Len(names)]

\* Lines 110-113: the stored player, validated against the candidates.
ValidLastPlayer(names, norm) ==
    LET SameBase(n) == norm.t = "str" /\ normalize_player_name(n) = norm.s
        matching == SelectSeq(names, SameBase)
    IN  IF matching # <<>> THEN matching[1] ELSE None

\* Lines 123-139: the selection policy over the cached statuses.
SelectPolicy(names, statuses, last_player) ==
    LET StatusOf(n) == statuses[CHOOSE i \in 1..Len(names) : names[i] = n]
        IsPlaying(n) == StatusOf(n) = "Playing"
        IsPaused(n) == StatusOf(n) = "Paused"
        playing == SelectSeq(names, IsPlaying)
        paused == SelectSeq(names, IsPaused)
    IN  IF playing # <<>>
        THEN IF Truthy(last_player) /\ StatusOf(last_player) = "Playing"
             THEN last_player
             ELSE playing[1]
        ELSE IF Truthy(last_player)
                /\ StatusOf(last_player) \in {"Playing", "Paused"}
             THEN last_player
             ELSE IF paused # <<>> THEN paused[1]
             ELSE names[1]

\* Lines 110-139 for a non-empty candidate list and the value stored that
\* load_last_player returned: the player chosen, or the exception raised.
ChooseAmong(names, statusProc, stored) ==
    LET norm == NormalizeValue(stored)
    IN  IF TruthyV(stored) /\ norm.exc # "none" THEN Raised(norm.exc)
        ELSE
        LET last_player ==
                IF TruthyV(stored) THEN ValidLastPlayer(names, norm) ELSE None
            results == [i \in 1..Len(names) |-> run_playerctl(statusProc[names[i]])]
            failed == { i \in 1..Len(names) : results[i].exc # "none" }
            first == CHOOSE i \in failed : \A j \in failed : i <= j
            statuses == [i \in 1..Len(names) |-> results[i].value]
        IN  IF failed # {} THEN Raised(results[first].exc)
            ELSE Returned(SelectPolicy(names, statuses, last_player))

\* What choose_player(selected, excluded) returns or raises: listProc is the
\* launch of "playerctl --list-all", statusProc[n] that of "playerctl
\* --player n status", file the state file as load_last_player finds it.
choose_player(selected, excluded, listProc, statusProc, file) ==
    LET listed == run_playerctl(listProc) IN
    IF listed.exc # "none" THEN Raised(listed.exc)
    ELSE IF listed.value = "" THEN Returned(None)
    ELSE LET names == FilterNames(selected, excluded, listed.value) IN
         IF names = <<>> THEN Returned(None)
         ELSE ChooseAmong(names, statusProc, load_last_player(file))

\* ------------------------------------------------------------------------
\* Metadata and the payload
\* ------------------------------------------------------------------------
\* get_player_info: metaProc is the launch of "playerctl --player <name>
\* metadata --format ...".
get_player_info(metaProc) ==
    LET meta == run_playerctl(metaProc)
        parts == split(meta.value, "|||")
        Field(k) == IF Len(parts) >= k THEN OrNone(strip(parts[k])) ELSE None
    IN  IF meta.exc # "none"
        THEN [exc |-> meta.exc, status |-> None, artist |-> None,
              title |-> None, trackid |-> None]
        ELSE IF meta.value = ""
        THEN [exc |-> "none", status |-> None, artist |-> None,
              title |-> None, trackid |-> None]
        ELSE [exc |-> "none", status |-> Field(1), artist |-> Field(2),
              title |-> Field(3), trackid |-> Field(4)]

\* The two Nerd Font glyphs of line 213 (U+F040A, U+F03E4), written in ASCII.
IconPlaying == "<U+F040A>"
IconPaused == "<U+F03E4>"

Payload(text, class, alt) == [text |-> text, class |-> class, alt |-> alt]

\* build_output returning None.
NoPayload == Payload(None, None, None)

\* hidden_payload
hidden_payload == Payload("", "hidden", "")

\* IsSpotifyAd without the normalization of the player's name.
IsSpotifyAd_NoNormalize(player_name, trackid) ==
    /\ lower(player_name) = "spotify"
    /\ trackid # None
    /\ Contains(lower(trackid), ":ad:")

\* Lines 195-199.
IsSpotifyAd(player_name, trackid) ==
    /\ lower(normalize_player_name(player_name)) = "spotify"
    /\ trackid # None
    /\ Contains(lower(trackid), ":ad:")

\* build_output
build_output(player_name, status, artist, title, trackid) ==
    LET normalized_status == IF status = "Stopped" THEN "Paused" ELSE status
        track_info ==
            IF IsSpotifyAd(player_name, trackid) THEN "Advertisement"
            ELSE IF Truthy(artist) /\ Truthy(title) THEN title \o " - " \o artist
            ELSE IF Truthy(title) THEN title
            ELSE IF Truthy(artist) THEN artist
            ELSE ""
        icon == IF normalized_status = "Playing" THEN IconPlaying ELSE IconPaused
        text == IF track_info # "" THEN icon \o "  " \o track_info ELSE icon
        css_class == "custom-" \o slugify_class(player_name) \o " "
                     \o lower(normalized_status)
    IN  IF ~Truthy(player_name) THEN NoPayload
        ELSE IF normalized_status \notin {"Playing", "Paused"} THEN NoPayload
        ELSE IF icon = "" /\ track_info = "" THEN NoPayload
        ELSE Payload(text, strip(css_class), player_name)

\* ------------------------------------------------------------------------
\* The command line
\* ------------------------------------------------------------------------
StartsWith(s, prefix) ==
    Len(s) >= Len(prefix) /\ SubSeq(s, 1, Len(prefix)) = prefix

\* The option strings of the parser (add_help=False).
OptionStrings == {"--player", "-x", "--exclude", "--debug"}

Args(err, player, exclude, debug) ==
    [err |-> err, player |-> player, exclude |-> exclude, debug |-> debug]

RECURSIVE AllDigits(_)
AllDigits(s) == s = "" \/ (Known(Head(s)) \in Digits /\ AllDigits(Tail(s)))

\* argparse's _negative_number_matcher, '^-\d+$|^-\d*\.\d+$': $ also matches
\* before a newline that ends the token.
IsNegativeNumber(tok) ==
    LET body == IF tok # "" /\ CharAt(tok, Len(tok)) = "\n"
                THEN SubSeq(tok, 1, Len(tok) - 1) ELSE tok
        rest == SubSeq(body, 2, Len(body))
        dot == Find(rest, ".", 1)
    IN  /\ body # "" /\ Head(body) = "-"
        /\ \/ rest # "" /\ AllDigits(rest)
           \/ /\ dot # 0 /\ dot < Len(rest)
              /\ AllDigits(SubSeq(rest, 1, dot - 1))
              /\ AllDigits(SubSeq(rest, dot + 1, Len(rest)))

\* What argparse's _parse_optional makes of a token: a positional argument
\* (kind "A"); an option of the parser (kind "O") with, if has, the explicit
\* argument written in the token; an option the parser does not have
\* ("unknown"); or a prefix of several options ("ambiguous").
Token(kind, option, has, explicit) ==
    [kind |-> kind, option |-> option, has |-> has, explicit |-> explicit]

\* _get_option_tuples: the options a token abbreviates, each with the
\* explicit argument the token carries for it.
OptionTuples(tok) ==
    LET eq == Find(tok, "=", 1)
        prefix == IF eq # 0 THEN SubSeq(tok, 1, eq - 1) ELSE tok
    IN  IF CharAt(tok, 2) = "-"
        THEN { Token("O", o, eq # 0, SubSeq(tok, eq + 1, Len(tok))) :
                 o \in { o \in OptionStrings : StartsWith(o, prefix) } }
        ELSE { Token("O", o, TRUE, SubSeq(tok, 3, Len(tok))) :
                 o \in { o \in OptionStrings : o = SubSeq(tok, 1, 2) } }
             \cup { Token("O", o, FALSE, "") :
                      o \in { o \in OptionStrings :
                                o # SubSeq(tok, 1, 2) /\ StartsWith(o, tok) } }

\* _parse_optional
Classify(tok) ==
    LET eq == Find(tok, "=", 1)
        tuples == OptionTuples(tok)
    IN  IF tok = "" THEN Token("A", "", FALSE, "")
        ELSE IF Head(tok) # "-" THEN Token("A", "", FALSE, "")
        ELSE IF tok \in OptionStrings THEN Token("O", tok, FALSE, "")
        ELSE IF Len(tok) = 1 THEN Token("A", "", FALSE, "")
        ELSE IF eq # 0 /\ SubSeq(tok, 1, eq - 1) \in OptionStrings
        THEN Token("O", SubSeq(tok, 1, eq - 1), TRUE, SubSeq(tok, eq + 1, Len(tok)))
        ELSE IF Cardinality(tuples) > 1 THEN Token("ambiguous", "", FALSE, "")
        ELSE IF Cardinality(tuples) = 1 THEN CHOOSE t \in tuples : TRUE
        ELSE IF IsNegativeNumber(tok) THEN Token("A", "", FALSE, "")
        ELSE IF Contains(tok, " ") THEN Token("A", "", FALSE, "")
        ELSE Token("unknown", "", FALSE, "")

\* A token argparse takes as the argument of the option before it: "--" is
\* none, and an option takes no "--" with its argument.
IsValueToken(tok) == tok # "--" /\ Classify(tok).kind = "A"

\* _get_values for one argument string: the explicit argument "--" is
\* removed from the strings, and no string left gives the empty list.
ValueOf(arg) == IF arg = "--" THEN EmptyList ELSE arg

\* argparse over the tokens after the program name: acc is the namespace so
\* far; err means parser.error (usage on stderr, exit 2).  The parser has no
\* positional argument, so a token that no option takes is an error.
RECURSIVE ParseTokens(_, _)
ParseTokens(toks, acc) ==
    IF toks = <<>> THEN acc
    ELSE
    LET tok == Head(toks)
        rest == Tail(toks)
        t == Classify(tok)
        Failed == Args(TRUE, acc.player, acc.exclude, acc.debug)
        Set(v) == IF t.option = "--player"
                  THEN Args(FALSE, v, acc.exclude, acc.debug)
                  ELSE Args(FALSE, acc.player, v, acc.debug)
    IN  IF tok = "--" THEN Failed
        ELSE IF t.kind # "O" THEN Failed
        ELSE IF t.option = "--debug"
        THEN IF t.has THEN Failed
             ELSE ParseTokens(rest, Args(FALSE, acc.player, acc.exclude, TRUE))
        ELSE IF t.has THEN ParseTokens(rest, Set(ValueOf(t.explicit)))
        ELSE IF rest # <<>> /\ IsValueToken(Head(rest))
        THEN ParseTokens(Tail(rest), Set(Head(rest)))
        ELSE Failed

\* parse_args
parse_args(tokens) == ParseTokens(tokens, Args(FALSE, None, "", FALSE))

\* Line 259: the exclusion list of main, for args.exclude a str.
ExcludedOf(exclude) ==
    LET pieces == split(exclude, ",")
        NonBlank(q) == strip(q) # ""
        kept == SelectSeq(pieces, NonBlank)
    IN  [i \in 1..Len(kept) |-> strip(kept[i])]

\* ------------------------------------------------------------------------
\* State
\* ------------------------------------------------------------------------
Invocations == 1..MaxInvocations

VARIABLES
    \* The surroundings, the same for every invocation of a behaviour.
    argv,        \* the command line after the program name
    running,     \* the players playerctl lists, in its order
    listExc,     \* the exception of "playerctl --list-all", or "none"
    statusProc,  \* player -> the launch of "playerctl --player p status"
    \* The state file.
    stateFile,   \* the file as open and json.load find it
    diskText,    \* the text written to it since open(.., "w") last emptied it
    locks,       \* the flock locks held: <<invocation, "SH" or "EX">>
    \* The invocations of the script, each a function of the invocation.
    pc,          \* where the invocation is; "off": it is not launched
    args,        \* parse_args' namespace
    names,       \* choose_player's candidates (line 103)
    data,        \* what open and json.load of load_last_player found
    last_player, \* the stored player after validation (line 113), or None
    statuses,    \* the statuses queried so far, in the candidates' order
    chosen,      \* what choose_player chose, returns or raises
    saved,       \* the file system's answer to the save, or "nosave"
    buffer,      \* the text in the buffer of the file object of line 46
    before,      \* the invocations that had ended when choose_player began
    stdout,      \* the payloads written to standard output, one per line
    exitStatus,  \* the process's exit status, -1 while it runs
    \* The formatter on its own (SpecFmt).
    fpc, fplayer, fmetaProc, finfo, fout

envVars == <<argv, running, listExc, statusProc>>
fileVars == <<stateFile, diskText, locks>>
invVars == <<pc, args, names, data, last_player, statuses, chosen, saved,
             buffer, before, stdout, exitStatus>>
fmtVars == <<fpc, fplayer, fmetaProc, finfo, fout>>
vars == <<envVars, fileVars, invVars, fmtVars>>

\* choose_player not called (yet) in an invocation.
NotCalled == [exc |-> "notcalled", value |-> None]

NoArgs == Args(FALSE, None, "", FALSE)

NoInfo == [exc |-> "none", status |-> None, artist |-> None,
           title |-> None, trackid |-> None]

\* The local state of invocations that have not reached choose_player.
InvocationsAt(where) ==
    /\ pc = where
    /\ names = [p \in Invocations |-> <<>>]
    /\ data = [p \in Invocations |-> NoData]
    /\ last_player = [p \in Invocations |-> None]
    /\ statuses = [p \in Invocations |-> <<>>]
    /\ chosen = [p \in Invocations |-> NotCalled]
    /\ saved = [p \in Invocations |-> "nosave"]
    /\ buffer = [p \in Invocations |-> ""]
    /\ before = [p \in Invocations |-> {}]
    /\ stdout = [p \in Invocations |-> <<>>]
    /\ exitStatus = [p \in Invocations |-> -1]

\* The parts of the state a specification does not use stay as they are here.
MainIdle ==
    /\ argv = <<>> /\ running = <<>> /\ listExc = "none" /\ statusProc = <<>>
    /\ stateFile = MissingFile /\ diskText = "" /\ locks = {}
    /\ args = [p \in Invocations |-> NoArgs]
    /\ InvocationsAt([p \in Invocations |-> "off"])

FmtIdle ==
    /\ fpc = "idle" /\ fplayer = None /\ fmetaProc = Proc("none", "")
    /\ finfo = NoInfo /\ fout = NoPayload

\* ------------------------------------------------------------------------
\* The surroundings an invocation is checked in
\* ------------------------------------------------------------------------
PlayerNames == {"vlc", "spotify", "spotify.instance2"}

RunningLists ==
    UNION { { s \in [1..n -> PlayerNames] :
                \A i, j \in 1..n : i # j => s[i] # s[j] } : n \in 0..MaxPlayers }

StatusOutcomes ==
    { Proc("none", "Playing\n"), Proc("none", "Paused\n"),
      Proc("none", "Stopped\n"), Proc("CalledProcessError", ""),
      Proc("UnicodeDecodeError", "") }

ListOutcomes == {"none", "FileNotFoundError", "PermissionError"}

MetaOutcomes ==
    { [exc |-> "none", status |-> None, artist |-> "Artist",
       title |-> "Title", trackid |-> "spotify:track:1"],
      [exc |-> "none", status |-> None, artist |-> "",
       title |-> "", trackid |-> "spotify:ad:1"],
      [exc |-> "UnicodeDecodeError", status |-> None, artist |-> None,
       title |-> None, trackid |-> None] }

\* The file system's answer to a save: "ok"; "denied" (makedirs or open
\* raises, the file is untouched); "full" (open emptied the file, the
\* buffered text cannot be written when the file is closed).
FsOutcomes == {"ok", "denied", "full"}

ValidArgv ==
    { <<>>,
      <<"--player", "spotify">>,
      <<"--debug", "-x", "spotify">>,
      <<"--player=spotify", "--exclude", "spotify, vlc,">> }

ArgvChoices ==
    ValidArgv \cup { <<"--bogus">>, <<"--player">>, <<"-h">>, <<"-x--">> }

FileContents ==
    { MissingFile, UnreadableFile, InvalidFile, NonObjectFile, EmptyObjectFile,
      PlayerFile(StrV("")), PlayerFile(JV("int", "", 5)),
      PlayerFile(JV("list", "x", 0)) }
    \cup { PlayerFile(StrV(n)) : n \in PlayerNames }

\* The text "playerctl --list-all" prints for the running players.
RECURSIVE ListText(_)
ListText(ns) ==
    IF ns = <<>> THEN "" ELSE Head(ns) \o "\n" \o ListText(Tail(ns))

ListProc ==
    IF listExc = "none" THEN Proc("none", ListText(running)) ELSE Proc(listExc, "")

\* The launch of the metadata query of line 156 for a player: it fails as the
\* player's status query does, and prints the status that query printed.
MetaProc(player, m) ==
    LET st == statusProc[player] IN
    IF st.exc # "none" THEN st
    ELSE IF m.exc # "none" THEN Proc(m.exc, "")
    ELSE Proc("none", strip(st.out) \o "|||" \o m.artist \o "|||"
                      \o m.title \o "|||" \o m.trackid \o "\n")

\* The surroundings: the players, the tool's answers, the state file.
InitSurroundings ==
    /\ running \in RunningLists
    /\ listExc \in ListOutcomes
    /\ listExc # "none" => running = <<>>
    /\ statusProc \in [Range(running) -> StatusOutcomes]
    /\ stateFile \in FileContents
    /\ diskText = ""
    /\ locks = {}

\* ------------------------------------------------------------------------
\* choose_player, step by step, in invocation p
\* ------------------------------------------------------------------------
\* The invocation's choose_player has ended: it was called (line 261) and
\* has returned or raised, whatever main has done since.
Ended(q) ==
    /\ chosen[q].exc # "notcalled"
    /\ pc[q] \in {"chosen", "failed", "raised", "done"}

\* Lines 81-106: the listed players and the user's filters.
ListPlayers(p) ==
    /\ pc[p] = "parsed"
    /\ before' = [before EXCEPT ![p] = { q \in Invocations : Ended(q) }]
    /\ \E listed \in { run_playerctl(ListProc) } :
         IF listed.exc # "none"
         THEN /\ chosen' = [chosen EXCEPT ![p] = Raised(listed.exc)]
              /\ pc' = [pc EXCEPT ![p] = "failed"]
              /\ UNCHANGED names
         ELSE IF listed.value = ""
         THEN /\ chosen' = [chosen EXCEPT ![p] = Returned(None)]
              /\ pc' = [pc EXCEPT ![p] = "chosen"]
              /\ UNCHANGED names
         ELSE \E ns \in { FilterNames(args[p].player, ExcludedOf(args[p].exclude),
                                      listed.value) } :
                /\ names' = [names EXCEPT ![p] = ns]
                /\ IF ns = <<>>
                   THEN /\ chosen' = [chosen EXCEPT ![p] = Returned(None)]
                        /\ pc' = [pc EXCEPT ![p] = "chosen"]
                   ELSE /\ pc' = [pc EXCEPT ![p] = "listed"]
                        /\ UNCHANGED chosen
    /\ UNCHANGED <<args, data, saved, buffer, stdout, exitStatus>>
    /\ UNCHANGED <<last_player, statuses>>
    /\ UNCHANGED <<envVars, fileVars, fmtVars>>

\* Line 33: open(STATE_FILE, "r") raises for a file that is missing or that
\* this user cannot read, and load_last_player returns None.
LoadOpen(p) ==
    /\ pc[p] = "listed"
    /\ IF stateFile.kind \in {"missing", "unreadable"}
       THEN /\ data' = [data EXCEPT ![p] = stateFile]
            /\ pc' = [pc EXCEPT ![p] = "loaded"]
       ELSE /\ pc' = [pc EXCEPT ![p] = "r_open"]
            /\ UNCHANGED data
    /\ UNCHANGED <<args, names, chosen, saved, buffer, before, stdout, exitStatus>>
    /\ UNCHANGED <<last_player, statuses>>
    /\ UNCHANGED <<envVars, fileVars, fmtVars>>

\* Line 34: flock(LOCK_SH) waits while another open file holds LOCK_EX.
LoadLock(p) ==
    /\ pc[p] = "r_open"
    /\ \A q \in Invocations : q # p => <<q, "EX">> \notin locks
    /\ locks' = locks \cup {<<p, "SH">>}
    /\ pc' = [pc EXCEPT ![p] = "r_locked"]
    /\ UNCHANGED <<stateFile, diskText>>
    /\ UNCHANGED <<args, names, data, chosen, saved, buffer, before, stdout,
                   exitStatus>>
    /\ UNCHANGED <<last_player, statuses>>
    /\ UNCHANGED <<envVars, fmtVars>>

\* Line 35: json.load reads the file; on text that is no JSON document it
\* raises, the with block closes the file (which drops the lock) and
\* load_last_player returns None.
LoadRead(p) ==
    /\ pc[p] = "r_locked"
    /\ data' = [data EXCEPT ![p] = stateFile]
    /\ IF stateFile.kind = "json"
       THEN /\ pc' = [pc EXCEPT ![p] = "r_read"]
            /\ UNCHANGED locks
       ELSE /\ pc' = [pc EXCEPT ![p] = "loaded"]
            /\ locks' = locks \ {<<p, "SH">>}
    /\ UNCHANGED <<stateFile, diskText>>
    /\ UNCHANGED <<args, names, chosen, saved, buffer, before, stdout, exitStatus>>
    /\ UNCHANGED <<last_player, statuses>>
    /\ UNCHANGED <<envVars, fmtVars>>

\* Line 36: flock(LOCK_UN).
LoadUnlock(p) ==
    /\ pc[p] = "r_read"
    /\ locks' = locks \ {<<p, "SH">>}
    /\ pc' = [pc EXCEPT ![p] = "r_unlocked"]
    /\ UNCHANGED <<stateFile, diskText>>
    /\ UNCHANGED <<args, names, data, chosen, saved, buffer, before, stdout,
                   exitStatus>>
    /\ UNCHANGED <<last_player, statuses>>
    /\ UNCHANGED <<envVars, fmtVars>>

\* Lines 36-37: the with block ends, the file is closed.
LoadClose(p) ==
    /\ pc[p] = "r_unlocked"
    /\ pc' = [pc EXCEPT ![p] = "loaded"]
    /\ UNCHANGED <<args, names, data, chosen, saved, buffer, before, stdout,
                   exitStatus>>
    /\ UNCHANGED <<last_player, statuses>>
    /\ UNCHANGED <<envVars, fileVars, fmtVars>>

\* Lines 37 and 108-113: load_last_player returns; the stored player is
\* validated against the candidates, where normalize_player_name raises for
\* a stored value that is no str.
ValidateLast(p) ==
    /\ pc[p] = "loaded"
    /\ \E stored \in { load_last_player(data[p]) } :
       \E norm \in { NormalizeValue(stored) } :
         IF TruthyV(stored) /\ norm.exc # "none"
         THEN /\ chosen' = [chosen EXCEPT ![p] = Raised(norm.exc)]
              /\ pc' = [pc EXCEPT ![p] = "failed"]
              /\ UNCHANGED last_player
         ELSE /\ last_player' = [last_player EXCEPT ![p] =
                                   IF TruthyV(stored)
                                   THEN ValidLastPlayer(names[p], norm)
                                   ELSE None]
              /\ pc' = [pc EXCEPT ![p] = "querying"]
              /\ UNCHANGED chosen
    /\ UNCHANGED <<args, names, data, statuses, saved, buffer, before, stdout,
                   exitStatus>>
    /\ UNCHANGED <<envVars, fileVars, fmtVars>>

\* Line 119, once per candidate: the status query of the next candidate, a
\* wait for one playerctl process; an exception run_playerctl does not
\* swallow ends choose_player.
QueryStatus(p) ==
    /\ pc[p] = "querying"
    /\ Len(statuses[p]) < Len(names[p])
    /\ \E r \in { run_playerctl(statusProc[names[p][Len(statuses[p]) + 1]]) } :
         IF r.exc # "none"
         THEN /\ chosen' = [chosen EXCEPT ![p] = Raised(r.exc)]
              /\ pc' = [pc EXCEPT ![p] = "failed"]
              /\ UNCHANGED statuses
         ELSE /\ statuses' = [statuses EXCEPT ![p] = Append(@, r.value)]
              /\ UNCHANGED <<pc, chosen>>
    /\ UNCHANGED <<args, names, data, last_player, saved, buffer, before, stdout,
                   exitStatus>>
    /\ UNCHANGED <<envVars, fileVars, fmtVars>>

\* Lines 123-141: every candidate's status is cached; the policy chooses.
SelectPlayer(p) ==
    /\ pc[p] = "querying"
    /\ Len(statuses[p]) = Len(names[p])
    /\ \E c \in { SelectPolicy(names[p], statuses[p], last_player[p]) } :
         /\ chosen' = [chosen EXCEPT ![p] = Returned(c)]
         /\ pc' = [pc EXCEPT ![p] = IF Truthy(c) THEN "decided" ELSE "chosen"]
    /\ UNCHANGED <<args, names, data, last_player, statuses, saved, buffer,
                   before, stdout, exitStatus>>
    /\ UNCHANGED <<envVars, fileVars, fmtVars>>

\* Lines 141-142 and 45-46: save_last_player; makedirs or open raises and
\* the save is given up, or open(STATE_FILE, "w") empties the file, before
\* any lock.
SaveOpen(p) ==
    /\ pc[p] = "decided"
    /\ \E f \in FsOutcomes :
         /\ saved' = [saved EXCEPT ![p] = f]
         /\ IF f = "denied"
            THEN /\ pc' = [pc EXCEPT ![p] = "chosen"]
                 /\ UNCHANGED <<stateFile, diskText>>
            ELSE /\ pc' = [pc EXCEPT ![p] = "w_open"]
                 /\ stateFile' = OpenForWriting(stateFile)
                 /\ diskText' = ""
    /\ UNCHANGED locks
    /\ UNCHANGED <<args, names, data, chosen, buffer, before, stdout, exitStatus>>
    /\ UNCHANGED <<last_player, statuses>>
    /\ UNCHANGED <<envVars, fmtVars>>

\* Line 47: flock(LOCK_EX) waits while another open file holds any lock.
SaveLock(p) ==
    /\ pc[p] = "w_open"
    /\ \A q \in Invocations : q # p => \A m \in {"SH", "EX"} : <<q, m>> \notin locks
    /\ locks' = locks \cup {<<p, "EX">>}
    /\ pc' = [pc EXCEPT ![p] = "w_locked"]
    /\ UNCHANGED <<stateFile, diskText>>
    /\ UNCHANGED <<args, names, data, chosen, saved, buffer, before, stdout,
                   exitStatus>>
    /\ UNCHANGED <<last_player, statuses>>
    /\ UNCHANGED <<envVars, fmtVars>>

\* Line 48: json.dump writes into the file object's buffer.
SaveDump(p) ==
    /\ pc[p] = "w_locked"
    /\ buffer' = [buffer EXCEPT ![p] = JsonDump(chosen[p].value)]
    /\ pc' = [pc EXCEPT ![p] = "w_dumped"]
    /\ UNCHANGED <<args, names, data, chosen, saved, before, stdout, exitStatus>>
    /\ UNCHANGED <<last_player, statuses>>
    /\ UNCHANGED <<envVars, fileVars, fmtVars>>

\* Line 49: flock(LOCK_UN), the buffer not yet written.
SaveUnlock(p) ==
    /\ pc[p] = "w_dumped"
    /\ locks' = locks \ {<<p, "EX">>}
    /\ pc' = [pc EXCEPT ![p] = "w_unlocked"]
    /\ UNCHANGED <<stateFile, diskText>>
    /\ UNCHANGED <<args, names, data, chosen, saved, buffer, before, stdout,
                   exitStatus>>
    /\ UNCHANGED <<last_player, statuses>>
    /\ UNCHANGED <<envVars, fmtVars>>

\* Lines 49-52 and 147: the with block ends; closing the file writes the
\* buffer at this open file's offset 0, or fails on a full disk, which the
\* except clause swallows; choose_player returns.
SaveClose(p) ==
    /\ pc[p] = "w_unlocked"
    /\ IF saved[p] = "full"
       THEN UNCHANGED <<stateFile, diskText>>
       ELSE \E text \in { Overlay(diskText, buffer[p]) } :
              /\ diskText' = text
              /\ stateFile' = Written(stateFile, text, buffer[p], chosen[p].value)
    /\ buffer' = [buffer EXCEPT ![p] = ""]
    /\ pc' = [pc EXCEPT ![p] = "chosen"]
    /\ UNCHANGED locks
    /\ UNCHANGED <<args, names, data, chosen, saved, before, stdout, exitStatus>>
    /\ UNCHANGED <<last_player, statuses>>
    /\ UNCHANGED <<envVars, fmtVars>>

\* ------------------------------------------------------------------------
\* One call of choose_player (Spec)
\* ------------------------------------------------------------------------
\* Invocation 1 has parsed a valid command line and is about to call
\* choose_player; no other invocation is launched.
Init ==
    /\ argv \in ValidArgv
    /\ InitSurroundings
    /\ args = [p \in Invocations |-> IF p = 1 THEN parse_args(argv) ELSE NoArgs]
    /\ InvocationsAt([p \in Invocations |-> IF p = 1 THEN "parsed" ELSE "off"])
    /\ FmtIdle

Next ==
    \E p \in Invocations :
        \/ ListPlayers(p)
        \/ LoadOpen(p)
        \/ LoadLock(p)
        \/ LoadRead(p)
        \/ LoadUnlock(p)
        \/ LoadClose(p)
        \/ ValidateLast(p)
        \/ QueryStatus(p)
        \/ SelectPlayer(p)
        \/ SaveOpen(p)
        \/ SaveLock(p)
        \/ SaveDump(p)
        \/ SaveUnlock(p)
        \/ SaveClose(p)

Spec == Init /\ [][Next]_vars

\* ------------------------------------------------------------------------
\* One invocation of main (SpecMain)
\* ------------------------------------------------------------------------
InitMain ==
    /\ argv \in ArgvChoices
    /\ InitSurroundings
    /\ args = [p \in Invocations |-> NoArgs]
    /\ InvocationsAt([p \in Invocations |-> IF p = 1 THEN "start" ELSE "off"])
    /\ FmtIdle

\* Lines 256-259: parse_args, outside the try block, where parser.error
\* exits with status 2; then the exclusion list, inside it, where
\* args.exclude.split raises AttributeError for the empty list.
ParseArgs(p) ==
    /\ pc[p] = "start"
    /\ \E a \in { parse_args(argv) } :
         /\ args' = [args EXCEPT ![p] = a]
         /\ IF a.err
            THEN /\ pc' = [pc EXCEPT ![p] = "exited"]
                 /\ exitStatus' = [exitStatus EXCEPT ![p] = 2]
            ELSE /\ pc' = [pc EXCEPT ![p] =
                             IF a.exclude = EmptyList THEN "raised" ELSE "parsed"]
                 /\ UNCHANGED exitStatus
    /\ UNCHANGED <<names, data, chosen, saved, buffer, before, stdout>>
    /\ UNCHANGED <<last_player, statuses>>
    /\ UNCHANGED <<envVars, fileVars, fmtVars>>

\* Lines 263-266: nothing chosen, the hidden payload.
EmitHidden(p) ==
    /\ pc[p] = "chosen"
    /\ ~Truthy(chosen[p].value)
    /\ stdout' = [stdout EXCEPT ![p] = Append(@, hidden_payload)]
    /\ pc' = [pc EXCEPT ![p] = "done"]
    /\ exitStatus' = [exitStatus EXCEPT ![p] = 0]
    /\ UNCHANGED <<args, names, data, chosen, saved, buffer, before>>
    /\ UNCHANGED <<last_player, statuses>>
    /\ UNCHANGED <<envVars, fileVars, fmtVars>>

\* Lines 268-277: the metadata of the chosen player and its payload.
EmitPayload(p) ==
    /\ pc[p] = "chosen"
    /\ Truthy(chosen[p].value)
    /\ \E m \in MetaOutcomes :
         LET info == get_player_info(MetaProc(chosen[p].value, m))
             output == build_output(chosen[p].value, info.status, info.artist,
                                    info.title, info.trackid)
         IN  IF info.exc # "none"
             THEN /\ pc' = [pc EXCEPT ![p] = "raised"]
                  /\ UNCHANGED <<stdout, exitStatus>>
             ELSE /\ stdout' = [stdout EXCEPT ![p] =
                                  Append(@, IF output # NoPayload THEN output
                                            ELSE hidden_payload)]
                  /\ pc' = [pc EXCEPT ![p] = "done"]
                  /\ exitStatus' = [exitStatus EXCEPT ![p] = 0]
    /\ UNCHANGED <<args, names, data, chosen, saved, buffer, before>>
    /\ UNCHANGED <<last_player, statuses>>
    /\ UNCHANGED <<envVars, fileVars, fmtVars>>

\* Lines 279-283: any exception of the try block, the hidden payload.
HandleException(p) ==
    /\ pc[p] \in {"failed", "raised"}
    /\ stdout' = [stdout EXCEPT ![p] = Append(@, hidden_payload)]
    /\ pc' = [pc EXCEPT ![p] = "done"]
    /\ exitStatus' = [exitStatus EXCEPT ![p] = 0]
    /\ UNCHANGED <<args, names, data, chosen, saved, buffer, before>>
    /\ UNCHANGED <<last_player, statuses>>
    /\ UNCHANGED <<envVars, fileVars, fmtVars>>

NextMain ==
    \E p \in Invocations :
        \/ ParseArgs(p)
        \/ ListPlayers(p)
        \/ LoadOpen(p)
        \/ LoadLock(p)
        \/ LoadRead(p)
        \/ LoadUnlock(p)
        \/ LoadClose(p)
        \/ ValidateLast(p)
        \/ QueryStatus(p)
        \/ SelectPlayer(p)
        \/ SaveOpen(p)
        \/ SaveLock(p)
        \/ SaveDump(p)
        \/ SaveUnlock(p)
        \/ SaveClose(p)
        \/ EmitHidden(p)
        \/ EmitPayload(p)
        \/ HandleException(p)

SpecMain == InitMain /\ [][NextMain]_vars

\* ------------------------------------------------------------------------
\* The formatter on its own (SpecFmt)
\* ------------------------------------------------------------------------
FmtPlayers == {"spotify", "Spotify", "spotify.instance2", "spotifyd", "vlc"}
FmtStatuses == {"Playing", "Paused", "Stopped", ""}
FmtArtists == {"", "Artist"}
FmtTitles == {"", "Title"}
FmtTrackIds == {"", "spotify:track:1", "spotify:ad:1", "spotify:AD:1"}

\* What the metadata query prints or raises.
FmtProcs ==
    { Proc("none", st \o "|||" \o ar \o "|||" \o ti \o "|||" \o tr \o "\n") :
        st \in FmtStatuses, ar \in FmtArtists, ti \in FmtTitles,
        tr \in FmtTrackIds }
    \cup { Proc("none", "Playing\n"), Proc("CalledProcessError", ""),
           Proc("UnicodeDecodeError", "") }

InitFmt ==
    /\ fplayer \in FmtPlayers
    /\ fmetaProc \in FmtProcs
    /\ fpc = "query"
    /\ finfo = NoInfo
    /\ fout = NoPayload
    /\ MainIdle

\* Line 268: get_player_info for the chosen player.
GetPlayerInfo ==
    /\ fpc = "query"
    /\ finfo' = get_player_info(fmetaProc)
    /\ fpc' = IF finfo'.exc = "none" THEN "info" ELSE "raised"
    /\ UNCHANGED <<fplayer, fmetaProc, fout>>
    /\ UNCHANGED <<envVars, fileVars, invVars>>

\* Line 275: build_output on what get_player_info returned.
BuildOutput ==
    /\ fpc = "info"
    /\ fout' = build_output(fplayer, finfo.status, finfo.artist, finfo.title,
                            finfo.trackid)
    /\ fpc' = "built"
    /\ UNCHANGED <<fplayer, fmetaProc, finfo>>
    /\ UNCHANGED <<envVars, fileVars, invVars>>

NextFmt ==
    \/ GetPlayerInfo
    \/ BuildOutput

SpecFmt == InitFmt /\ [][NextFmt]_vars

\* ------------------------------------------------------------------------
\* Invocations overlapping on the state file (SpecLock)
\* ------------------------------------------------------------------------
\* The players running while the invocations overlap (two of them share a
\* base name), and the state file the first invocation finds.
OverlapRunning == { <<"vlc", "spotify">>, <<"spotify", "spotify.instance2">> }

\* What the status queries of the first and of the second player print.
OverlapStatuses ==
    { <<"Playing\n", "Playing\n">>, <<"Paused\n", "Playing\n">>,
      <<"Paused\n", "Paused\n">> }

OverlapFiles ==
    { MissingFile, PlayerFile(StrV("spotify")),
      PlayerFile(StrV("spotify.instance2")), PlayerFile(JV("int", "", 5)) }

\* Every invocation has parsed the empty command line and is about to call
\* choose_player; they run in any order, one after another or at the same
\* time.
InitLock ==
    /\ argv = <<>>
    /\ running \in OverlapRunning
    /\ listExc = "none"
    /\ \E st \in OverlapStatuses :
         statusProc = [n \in Range(running) |->
                         Proc("none", st[CHOOSE i \in 1..Len(running) : running[i] = n])]
    /\ stateFile \in OverlapFiles
    /\ diskText = ""
    /\ locks = {}
    /\ args = [p \in Invocations |-> parse_args(argv)]
    /\ InvocationsAt([p \in Invocations |-> "parsed"])
    /\ FmtIdle

SpecLock == InitLock /\ [][Next]_vars

\* ------------------------------------------------------------------------
\* Two invocations with the same command line (SpecTwice)
\* ------------------------------------------------------------------------
\* The command lines, the answers of the status queries and the state files
\* the two invocations are started with.
TwiceArgv == { <<>>, <<"--player", "spotify">>, <<"--debug", "-x", "spotify">> }

\* Every player reports a status, or every status query fails alike.
TwiceStatuses ==
    { Proc("none", "Playing\n"), Proc("none", "Paused\n"),
      Proc("none", "Stopped\n") }

TwiceFailures ==
    { Proc("CalledProcessError", ""), Proc("UnicodeDecodeError", "") }

TwiceFiles ==
    { MissingFile, PlayerFile(StrV("spotify.instance2")),
      PlayerFile(JV("int", "", 5)) }

\* Invocations 1 and 2 have parsed the same valid command line and are about
\* to call choose_player, among the same players with the same statuses;
\* they run one after the other, in either order, or at the same time.
InitTwice ==
    /\ argv \in TwiceArgv
    /\ running \in RunningLists
    /\ listExc = "none"
    /\ \/ statusProc \in [Range(running) -> TwiceStatuses]
       \/ \E f \in TwiceFailures : statusProc = [n \in Range(running) |-> f]
    /\ stateFile \in TwiceFiles
    /\ diskText = ""
    /\ locks = {}
    /\ args = [p \in Invocations |-> IF p \in {1, 2} THEN parse_args(argv) ELSE NoArgs]
    /\ InvocationsAt([p \in Invocations |-> IF p \in {1, 2} THEN "parsed" ELSE "off"])
    /\ FmtIdle

SpecTwice == InitTwice /\ [][Next]_vars

\* ------------------------------------------------------------------------
\* Properties
\* ------------------------------------------------------------------------
\* choose_player was called in invocation p and has returned or raised.
Called(p) == Ended(p)

\* choose_player returned (it did not raise).
ReturnedNormally(p) == pc[p] = "chosen"

\* The state file held a player identity when load_last_player read it.
HasStored(p) ==
    /\ data[p].kind = "json" /\ data[p].top = "object"
    /\ data[p].has
    /\ data[p].val.t = "str" /\ data[p].val.s # ""

Stored(p) == data[p].val.s

\* The state file was absent or corrupt: anything but an object whose
\* "player" is a non-empty string.
AbsentOrCorrupt(p) == ~HasStored(p)

\* The status the tool reports for a running player, "" if the query fails.
StatusText(n) ==
    IF statusProc[n].exc = "none" THEN strip(statusProc[n].out) ELSE ""

AnyPlaying(p) == \E n \in Range(names[p]) : StatusText(n) = "Playing"

\* What the call returns or raises when no state file exists.
WithoutStateFile(p) ==
    choose_player(args[p].player, ExcludedOf(args[p].exclude), ListProc,
                  statusProc, MissingFile)

\* Every exception a launch of the external tool can end in.
ToolExceptions ==
    ({ o.exc : o \in StatusOutcomes } \cup ListOutcomes) \ {"none"}

\* Invocation q called choose_player right after invocation p's call: p's
\* had ended when q's began, and every other invocation's call ended before
\* p's began or had not begun when q's ended.
InARow(p, q) ==
    /\ p # q
    /\ Called(q)
    /\ p \in before[q]
    /\ \A r \in Invocations \ {p, q} :
         \/ r \in before[p]
         \/ pc[r] \in {"off", "parsed"}
         \/ q \in before[r]

\* C1 (as claimed): every invocation of main ends with exit status 0 and
\* exactly one payload line on standard output.
C1_Original ==
    \A p \in Invocations :
        pc[p] \in {"done", "exited"}
        => exitStatus[p] = 0 /\ Len(stdout[p]) = 1

\* C2 (as claimed): when the stored identity is a candidate and is Playing,
\* choose_player returns exactly the stored identity.
C2_Original ==
    \A p \in Invocations :
        ( /\ ReturnedNormally(p)
          /\ HasStored(p)
          /\ Stored(p) \in Range(names[p])
          /\ StatusText(Stored(p)) = "Playing" )
        => chosen[p].value = Stored(p)

\* C3 (as claimed): when no candidate is Playing and the stored identity is
\* a candidate and is Paused, choose_player returns exactly the stored
\* identity.
C3_Original ==
    \A p \in Invocations :
        ( /\ ReturnedNormally(p)
          /\ HasStored(p)
          /\ ~AnyPlaying(p)
          /\ Stored(p) \in Range(names[p])
          /\ StatusText(Stored(p)) = "Paused" )
        => chosen[p].value = Stored(p)

\* C4 (as claimed): when choose_player is called twice in a row with the
\* same arguments, players and statuses, the second call returns (or raises)
\* what the first did.
C4_Original ==
    \A p, q \in Invocations :
        InARow(p, q)
        => chosen[q].exc = chosen[p].exc /\ chosen[q].value = chosen[p].value

\* C4 (amended): when choose_player is called twice in a row with the same
\* arguments, players and statuses, the second call returns (or raises) what
\* the first did, unless the first call's write of the state file failed
\* after open() had emptied it; then the second call does what it does with
\* no state file.
C4_RoundTrip ==
    \A p, q \in Invocations :
        InARow(p, q)
        => IF saved[p] # "full"
           THEN chosen[q].exc = chosen[p].exc /\ chosen[q].value = chosen[p].value
           ELSE /\ chosen[q].exc = WithoutStateFile(q).exc
                /\ chosen[q].value = WithoutStateFile(q).value

\* The second call reloads the choice the first persisted, and keeps it
\* although it would choose another player with no state file.
C4_Witness ==
    \E p, q \in Invocations :
        /\ InARow(p, q)
        /\ ReturnedNormally(p) /\ ReturnedNormally(q)
        /\ saved[p] = "ok"
        /\ data[q] = PlayerFile(StrV(chosen[p].value))
        /\ chosen[q].value = chosen[p].value
        /\ WithoutStateFile(q).value # chosen[q].value

\* C5 (as claimed): choose_player never returns a player whose normalized
\* identity is in the exclusion list.
C5_Original ==
    \A p \in Invocations :
        (ReturnedNormally(p) /\ Truthy(chosen[p].value))
        => normalize_player_name(chosen[p].value)
             \notin Range(ExcludedOf(args[p].exclude))

\* C5 (amended): with no forced player, choose_player never returns a player
\* whose normalized identity is in the exclusion list.
C5_ExclusionWithoutForce ==
    \A p \in Invocations :
        (ReturnedNormally(p) /\ Truthy(chosen[p].value) /\ ~Truthy(args[p].player))
        => normalize_player_name(chosen[p].value)
             \notin Range(ExcludedOf(args[p].exclude))

\* spotify is excluded, running, and the stored choice; another player is
\* returned.
C5_Witness ==
    \E p \in Invocations :
        /\ ReturnedNormally(p) /\ Truthy(chosen[p].value)
        /\ ~Truthy(args[p].player)
        /\ "spotify" \in Range(ExcludedOf(args[p].exclude))
        /\ "spotify" \in Range(running)
        /\ HasStored(p) /\ Stored(p) = "spotify"

\* A stored identity no candidate shares a normalized name with.
StaleStored(p) ==
    /\ HasStored(p)
    /\ \A n \in Range(names[p]) :
         normalize_player_name(n) # normalize_player_name(Stored(p))

\* C6 (as claimed): a stored identity that is not a candidate is disregarded:
\* the call returns what it returns with no state file, never the stored
\* identity, and always a candidate.
C6_Original ==
    \A p \in Invocations :
        /\ (ReturnedNormally(p) /\ HasStored(p) /\ Stored(p) \notin Range(names[p]))
           => /\ chosen[p].value = WithoutStateFile(p).value
              /\ chosen[p].value # Stored(p)
        /\ (ReturnedNormally(p) /\ Truthy(chosen[p].value))
           => chosen[p].value \in Range(names[p])

\* C6 (amended): a stored identity whose normalized name no candidate has is
\* disregarded: the call returns what it returns with no state file, never
\* the stored identity; and a returned identity is always a candidate.
C6_StaleDisregarded ==
    \A p \in Invocations :
        ReturnedNormally(p) =>
          /\ StaleStored(p)
             => /\ chosen[p].value = WithoutStateFile(p).value
                /\ chosen[p].value # Stored(p)
          /\ (HasStored(p) /\ Stored(p) \notin Range(names[p]))
             => chosen[p].value # Stored(p)
          /\ Truthy(chosen[p].value) => chosen[p].value \in Range(names[p])

\* A stale stored identity, several candidates, one of them returned.
C6_Witness ==
    \E p \in Invocations :
        /\ ReturnedNormally(p) /\ StaleStored(p)
        /\ Len(names[p]) >= 2
        /\ Truthy(chosen[p].value)

\* C7 (as claimed): with the state file absent or corrupt the call does what
\* it does with no state file.
C7_Original ==
    \A p \in Invocations :
        (Called(p) /\ AbsentOrCorrupt(p))
        => /\ chosen[p].exc = WithoutStateFile(p).exc
           /\ chosen[p].value = WithoutStateFile(p).value

\* C8 (as claimed): for a Playing spotify player on an ":ad:" track the
\* payload's text is exactly "Advertisement".
C8_Original ==
    ( /\ fpc = "built"
      /\ finfo.status = "Playing"
      /\ normalize_player_name(fplayer) = "spotify"
      /\ finfo.trackid # None /\ Contains(finfo.trackid, ":ad:") )
    => fout.text = "Advertisement"

\* C8 (amended): for a Playing spotify player on an ":ad:" track the
\* payload's text is the Playing icon, two spaces and "Advertisement",
\* whatever the artist and title.
C8_AdvertisementText ==
    ( /\ fpc = "built"
      /\ finfo.status = "Playing"
      /\ normalize_player_name(fplayer) = "spotify"
      /\ finfo.trackid # None /\ Contains(finfo.trackid, ":ad:") )
    => fout.text = IconPlaying \o "  Advertisement"

\* An instance-qualified spotify plays an ":ad:" track that has an artist
\* and a title.
C8_Witness ==
    /\ fpc = "built"
    /\ fplayer = "spotify.instance2"
    /\ finfo.status = "Playing"
    /\ finfo.trackid = "spotify:ad:1"
    /\ finfo.artist = "Artist" /\ finfo.title = "Title"
    /\ fout # NoPayload

\* C9 (as claimed): a load that overlaps a save reads a complete document,
\* the one before the write or the new one, never an empty or partial file.
C9_Original ==
    \A p \in Invocations : data[p].kind # "invalid"

\* C10 (as claimed): no failure of a launch of the external tool propagates
\* out of run_playerctl: with candidates to choose among, a failed status
\* query leaves that candidate's status unknown and choose_player does not
\* end in the tool's exception.
C10_Original ==
    \A p \in Invocations :
        (Called(p) /\ names[p] # <<>>) => chosen[p].exc \notin ToolExceptions

====
